---- MODULE Spec2Model ----
(***************************************************************************)
(* Level loading of the high_impact engine (src/src/engine.c and the       *)
(* header-only copy src/src/tiled_loader.h): path normalisation, the tile  *)
(* layer loader, the object layer loader, the two level load entry points  *)
(* and the scene/frame protocol that sets the running flag.                *)
(*                                                                         *)
(* Strings that the code inspects character by character (paths) are       *)
(* sequences of one-character strings; JSON objects are records whose      *)
(* DOMAIN is the set of keys present, so json_value_for_key(o, k) = NULL   *)
(* is  k \notin DOMAIN o.                                                  *)
(***************************************************************************)
EXTENDS Integers, Sequences, FiniteSets, TLC

VARIABLES
    is_running,        \* static bool is_running
    scene,             \* static scene_t *scene        (0 is NULL)
    scene_next,        \* static scene_t *scene_next   (0 is NULL)
    pc,                \* where engine_update is: "idle" or inside a callback
    background_maps,   \* engine.background_maps[0 .. background_maps_len-1]
    collision_map,     \* engine.collision_map (NoMap is NULL)
    entities,          \* the live entities of the entity runtime
    died,              \* "" while the process lives, else the fatal message
    calls,             \* collaborator calls made by the last level load
    info,              \* tiled_map_info_t.tilesets as written by the last load
    last_load,         \* the last call that changed the level, with its arguments
    arg,               \* input of the function applied in the single-call specifications
    ret                \* its result (NotCalled before the call)

vars == <<is_running, scene, scene_next, pc, background_maps, collision_map,
          entities, died, calls, info, last_load, arg, ret>>

engine_vars == <<is_running, scene, scene_next, pc, background_maps,
                 collision_map, entities, died, calls, info, last_load>>

\* ------------------------------------------------------------------ bounds

\* longest path, in components, that SpecPath normalises
MaxComponents == 4
\* tile layers of SpecTile: data[] of at most MaxData ids in 0..MaxTile
MaxData == 3
MaxTile == 6
\* registries of SpecTile: at most MaxRegistry tilesets of 1..MaxTileCount tiles
MaxRegistry == 2
MaxTileCount == 2
\* projects of Spec: at most MaxLayers layers (or native maps) and at most
\* MaxEntities native entities; NScenes scenes
MaxLayers == 2
MaxEntities == 2
NScenes == 2
\* collision layers of SpecE2E: at most MaxE2EData ids
MaxE2EData == 2
\* object layers of SpecObj: at most MaxObjects objects
MaxObjects == 2

\* ------------------------------------------------------- program constants

MAX_PARTS == 32
MAX_TILESETS == 8
MAX_PATHLEN == 256
UINT16_MAX == 65535

NotCalled == [called |-> FALSE]

\* ------------------------------------------------------------ path resolver

SEP == "/"
DotDot == <<".", ".">>
\* a parts[] slot set to NULL (strtok never returns an empty token)
NullPart == <<>>

\* strtok(path_dup, "/") called until it returns NULL: the maximal runs of
\* characters other than the separator, in order.
RECURSIVE strtok(_, _, _)
strtok(s, cur, acc) ==
    IF s = <<>> THEN (IF cur = <<>> THEN acc ELSE Append(acc, cur))
    ELSE IF Head(s) = SEP
         THEN strtok(Tail(s), <<>>, IF cur = <<>> THEN acc ELSE Append(acc, cur))
         ELSE strtok(Tail(s), Append(cur, Head(s)), acc)

\* for (int j = i - 1; j > 0; j--) if (parts[j] != NULL) { parts[j] = NULL; break; }
\* parts is 1-based here, so C's j > 0 is j > 1.
RECURSIVE null_preceding(_, _)
null_preceding(parts, j) ==
    IF j > 1
    THEN IF parts[j] # NullPart
         THEN [parts EXCEPT ![j] = NullPart]
         ELSE null_preceding(parts, j - 1)
    ELSE parts

\* for (int i = 0; i < parts_len; i++) if (str_equals(parts[i], "..")) ...
RECURSIVE resolve_parts(_, _)
resolve_parts(parts, i) ==
    IF i > Len(parts) THEN [die |-> FALSE, parts |-> parts]
    ELSE IF parts[i] = DotDot
         THEN IF (i - 1) - 1 < 0          \* C: i - 1 < 0 with 0-based i
              THEN [die |-> TRUE, parts |-> parts]
              ELSE resolve_parts(
                       null_preceding([parts EXCEPT ![i] = NullPart], i - 1),
                       i + 1)
         ELSE resolve_parts(parts, i + 1)

\* strcat of every non-NULL part, followed by "/" unless it is the last slot
RECURSIVE join_parts(_, _, _)
join_parts(parts, i, out) ==
    IF i > Len(parts) THEN out
    ELSE IF parts[i] # NullPart
         THEN join_parts(parts, i + 1,
                  out \o parts[i] \o (IF i < Len(parts) THEN <<SEP>> ELSE <<>>))
         ELSE join_parts(parts, i + 1, out)

\* static char *norm_path(const char *path)
norm_path(path) ==
    LET parts == strtok(path, <<>>, <<>>) IN
    IF Len(parts) > MAX_PARTS
    THEN [called |-> TRUE, die |-> "Too many parts", path |-> <<>>]
    ELSE LET r == resolve_parts(parts, 1) IN
         IF r.die
         THEN [called |-> TRUE, die |-> "Can't resolve parent/upper dir",
               path |-> <<>>]
         ELSE [called |-> TRUE, die |-> "", path |-> join_parts(r.parts, 1, <<>>)]

\* index of the last "/" of path, 0 when there is none (strrchr)
RECURSIVE last_slash(_, _)
last_slash(path, i) ==
    IF i = 0 THEN 0
    ELSE IF path[i] = SEP THEN i ELSE last_slash(path, i - 1)

\* static char *parent_dir(const char *path): the text before the last
\* separator; NULL (here: found = FALSE) when the path has none.
parent_dir(path) ==
    LET k == last_slash(path, Len(path)) IN
    IF k > 0 THEN [found |-> TRUE, dir |-> SubSeq(path, 1, k - 1)]
    ELSE [found |-> FALSE, dir |-> <<>>]

\* ------------------------------------------------------- tile layer loader

Has(obj, key) == key \in DOMAIN obj

U16(n) == n % 65536

\* a descriptor as engine_load_level_tiled writes it (tile_width, tile_height
\* and json are stored by the code and never read by the loader)
Tileset(first_gid, tile_count, tsj_path, image_path) ==
    [first_gid |-> first_gid, tile_count |-> tile_count,
     tsj_path |-> tsj_path, image_path |-> image_path]

\* strstr(path, ".png"): the 1-based index of the first occurrence, 0 for NULL
PNG == <<".", "p", "n", "g">>
QOI == <<".", "q", "o", "i">>
RECURSIVE strstr(_, _, _)
strstr(s, needle, i) ==
    IF i + Len(needle) - 1 > Len(s) THEN 0
    ELSE IF SubSeq(s, i, i + Len(needle) - 1) = needle THEN i
    ELSE strstr(s, needle, i + 1)

\* The scan of data[] (the loop that also stores every tile):
\*   if (tile > 0 && tile < min_tile) min_tile = tile;
\*   else if (tile > 0 && tile > max_tile) max_tile = tile;
\* with error_if(raw_tile > 0xFFFF, "tile is out of range") on every element.
\* stored is the number of stores map->data[index++] = tile made so far.
RECURSIVE scan_tiles(_, _, _, _)
scan_tiles(data, i, min_tile, max_tile) ==
    IF i > Len(data)
    THEN [die |-> FALSE, done |-> TRUE, min_tile |-> min_tile,
          max_tile |-> max_tile, stored |-> Len(data)]
    ELSE IF data[i] > 65535
         THEN [die |-> TRUE, done |-> FALSE, min_tile |-> min_tile,
               max_tile |-> max_tile, stored |-> i - 1]
         ELSE LET tile == data[i] IN
              IF tile > 0 /\ tile < min_tile
              THEN scan_tiles(data, i + 1, tile, max_tile)
              ELSE IF tile > 0 /\ tile > max_tile
                   THEN scan_tiles(data, i + 1, min_tile, tile)
                   ELSE scan_tiles(data, i + 1, min_tile, max_tile)

\* for (i = 0; i < info->tilesets_len; i++)
\*   if (min_tile >= ts.first_gid && max_tile <= ts.first_gid + ts.tile_count)
\* the sum is an int: no 16-bit wraparound. 0 stands for -1 (no match).
RECURSIVE match_tileset(_, _, _, _)
match_tileset(tilesets, i, min_tile, max_tile) ==
    IF i > Len(tilesets) THEN 0
    ELSE IF /\ min_tile >= tilesets[i].first_gid
            /\ max_tile <= tilesets[i].first_gid + tilesets[i].tile_count
         THEN i
         ELSE match_tileset(tilesets, i + 1, min_tile, max_tile)

\* for (i = 0; i < size.x * size.y; i++) if (data[i] > 0) data[i] -= firstgid - 1;
\* data[] is uint16_t, so the subtraction is modulo 2^16. Only the cells the
\* scan stored are kept here.
rewrite_tiles(data, cells, firstgid) ==
    [i \in DOMAIN data |->
        IF i <= cells /\ data[i] > 0
        THEN U16(data[i] - (firstgid - 1) + 65536)
        ELSE data[i]]

\* the custom properties "foreground" and "repeat"
RECURSIVE read_props(_, _, _)
read_props(props, i, acc) ==
    IF i > Len(props) \/ acc.die # "" THEN acc
    ELSE LET prop == props[i]
             fg == IF prop.name = "foreground"
                   THEN IF prop.type # "bool"
                        THEN [acc EXCEPT !.die = "foreground property must be bool"]
                        ELSE [acc EXCEPT !.foreground = prop.value]
                   ELSE acc
             rp == IF fg.die = "" /\ prop.name = "repeat"
                   THEN IF prop.type # "bool"
                        THEN [fg EXCEPT !.die = "repeat property must be bool"]
                        ELSE [fg EXCEPT !.repeat = prop.value]
                   ELSE fg
         IN read_props(props, i + 1, rp)

NoTileset == <<>>
NoMap == [null |-> TRUE]

TileResult(die, null, map, scan, matched) ==
    [called |-> TRUE, die |-> die, null |-> null, map |-> map,
     scanned |-> scan.done, min_tile |-> scan.min_tile,
     max_tile |-> scan.max_tile, stored |-> scan.stored, matched |-> matched]

NoScan ==
    [die |-> FALSE, done |-> FALSE, min_tile |-> 65535, max_tile |-> 0,
     stored |-> 0]

\* the memory that starts at map->data after the scan: the width * height
\* cells of the grid, zeroed by bump_alloc and then overwritten by the stores,
\* followed by what the stores past the last cell wrote
stored_tiles(data, cells) ==
    [i \in 1..(IF Len(data) > cells THEN Len(data) ELSE cells) |->
        IF i <= Len(data) THEN data[i] ELSE 0]

\* what a build can do once the scan has stored past the end of map->data:
\* stop on the damaged heap, or go on with the tiles where they were written
UBOutcomes == {"crash", "continue"}

\* map_t *map_from_tiled_layer_json(json_t *def, tiled_map_info_t *info)
\* running is engine_is_running() at the call. The result carries the fatal
\* message (die), whether NULL was returned, the map, and the locals
\* min_tile, max_tile and matched_tileset_idx (1-based, 0 for none) and the
\* number of stores into map->data. ub is the outcome of a store past the
\* end of map->data.
map_from_tiled_layer_json(def, tinfo, running, ub) ==
    IF running
    THEN TileResult("Cannot create map during gameplay", TRUE, NoMap, NoScan, 0)
    ELSE IF def.type # "tilelayer"
    THEN TileResult("", TRUE, NoMap, NoScan, 0)
    ELSE
    LET cells == def.width * def.height
        hasParallax == Has(def, "parallaxx")
        distance == IF hasParallax THEN def.parallaxx ELSE 1
        props == read_props(IF Has(def, "properties") THEN def.properties ELSE <<>>,
                            1, [die |-> "", foreground |-> FALSE, repeat |-> FALSE])
        map0 == [null |-> FALSE,
                 name |-> IF Has(def, "name") THEN def.name ELSE "",
                 size |-> <<def.width, def.height>>,
                 tile_size |-> tinfo.tile_size,
                 distance |-> distance,
                 foreground |-> props.foreground,
                 repeat |-> props.repeat,
                 data |-> IF Has(def, "data") THEN stored_tiles(def.data, cells)
                          ELSE <<>>,
                 tileset |-> NoTileset]
    IN
    IF hasParallax /\ def.parallaxx # def.parallaxy
    THEN TileResult("parallax.x and parallax.y has to be the same(=map.distance)",
                    TRUE, NoMap, NoScan, 0)
    ELSE IF hasParallax /\ distance = 0
    THEN TileResult("invalid distance for map", TRUE, NoMap, NoScan, 0)
    ELSE IF props.die # ""
    THEN TileResult(props.die, TRUE, NoMap, NoScan, 0)
    ELSE IF Has(def, "name") /\ Len(def.name) > 15
    THEN TileResult("Map name exceeds 15 chars", TRUE, NoMap, NoScan, 0)
    ELSE IF ~Has(def, "data")
    THEN TileResult("map has no data", TRUE, NoMap, NoScan, 0)
    ELSE
    LET scan == scan_tiles(def.data, 1, 65535, 0) IN
    IF scan.die
    THEN TileResult("tile is out of range", TRUE, NoMap, scan, 0)
    ELSE IF scan.stored > cells /\ ub = "crash"
    THEN TileResult("segfault: store past the end of map->data", TRUE, NoMap,
                    scan, 0)
    ELSE IF scan.max_tile = 0
    THEN TileResult("", FALSE, map0, scan, 0)
    ELSE
    LET idx == match_tileset(tinfo.tilesets, 1, scan.min_tile, scan.max_tile) IN
    IF idx = 0
    THEN TileResult("No matching tileset found for given layer", TRUE, NoMap, scan, 0)
    ELSE
    LET ts == tinfo.tilesets[idx]
        folder == parent_dir(ts.tsj_path)
        joined == (IF folder.found THEN folder.dir
                   ELSE <<"(", "n", "u", "l", "l", ")">>)
                  \o <<SEP>> \o ts.image_path
        normed == norm_path(joined)
        png_pos == strstr(normed.path, PNG, 1)
    IN
    IF Len(joined) >= MAX_PATHLEN
    THEN TileResult("path is too long or short!", TRUE, NoMap, scan, idx)
    ELSE IF normed.die # ""
    THEN TileResult(normed.die, TRUE, NoMap, scan, idx)
    ELSE IF png_pos = 0
    THEN TileResult("segfault: strcpy(NULL, \".qoi\")", TRUE, NoMap, scan, idx)
    ELSE TileResult("", FALSE,
             [map0 EXCEPT
                 !.tileset = SubSeq(normed.path, 1, png_pos - 1) \o QOI,
                 !.data = rewrite_tiles(map0.data, cells, ts.first_gid)],
             scan, idx)

\* ----------------------------------------------------- object layer loader

\* The level state a load works on: the fatal message (die), engine's
\* background map list and collision slot, the entity runtime's live
\* entities, the collaborator calls made so far, and the tileset registry.
LevelState(die, maps, cmap, ents, log, tilesets) ==
    [die |-> die, background_maps |-> maps, collision_map |-> cmap,
     entities |-> ents, calls |-> log, info |-> tilesets]

Fatal(st, message) == [st EXCEPT !.die = message]

\* the entity types the game registers; entity_type_by_name gives 0 for others
EntityTypes == {"Player", "Crate"}
entity_type_by_name(type_name) ==
    IF type_name \in EntityTypes THEN type_name ELSE ""

\* entity_spawn(type, pos): a new live entity, not yet named
entity_spawn(st, type, pos) ==
    LET ents == Append(st.entities, [type |-> type, pos |-> pos, name |-> ""]) IN
    [st EXCEPT !.entities = ents,
               !.calls = Append(@, [op |-> "entity_spawn", ent |-> Len(ents)])]

\* snprintf(ent->name, 15, "%d", id) for id >= 0
Digits == <<"0", "1", "2", "3", "4", "5", "6", "7", "8", "9">>
RECURSIVE Decimal(_)
Decimal(n) ==
    IF n < 10 THEN Digits[n + 1]
    ELSE Decimal(n \div 10) \o Digits[(n % 10) + 1]

\* the loop over objects[] of entities_from_tiled_layer_json
RECURSIVE spawn_objects(_, _, _)
spawn_objects(objects, i, st) ==
    IF i > Len(objects) \/ st.die # "" THEN st
    ELSE LET obj == objects[i] IN
         IF ~Has(obj, "type") THEN Fatal(st, "Entity has no type")
         ELSE IF entity_type_by_name(obj.type) = ""
         THEN Fatal(st, "Unknown entity type")
         ELSE LET pos == <<obj.x, obj.y - obj.height>>
                  st1 == entity_spawn(st, entity_type_by_name(obj.type), pos)
                  ent == Len(st1.entities)
              IN IF ~Has(obj, "id") THEN Fatal(st1, "Expected id")
                 ELSE IF obj.id < 0 \/ obj.id >= UINT16_MAX
                 THEN Fatal(st1, "id out of range")
                 ELSE spawn_objects(objects, i + 1,
                          [st1 EXCEPT !.entities[ent].name = Decimal(obj.id)])

\* void entities_from_tiled_layer_json(json_t *layer_json)
entities_from_tiled_layer_json(layer_json, st) ==
    IF ~Has(layer_json, "objects") THEN Fatal(st, "No objects in layer")
    ELSE spawn_objects(layer_json.objects, 1, st)

\* ------------------------------------------------- level load orchestrator

ENGINE_MAX_BACKGROUND_MAPS == 4

\* a variant that puts the new map in front of the list
add_background_map_in_front(st, map) ==
    IF Len(st.background_maps) >= ENGINE_MAX_BACKGROUND_MAPS
    THEN Fatal(st, "BACKGROUND_MAPS_MAX reached")
    ELSE [st EXCEPT !.background_maps = <<map>> \o @]

\* void engine_add_background_map(map_t *map)
engine_add_background_map(st, map) ==
    IF Len(st.background_maps) >= ENGINE_MAX_BACKGROUND_MAPS
    THEN Fatal(st, "BACKGROUND_MAPS_MAX reached")
    ELSE [st EXCEPT !.background_maps = Append(@, map)]

\* void engine_set_collision_map(map_t *map)
engine_set_collision_map(st, map) == [st EXCEPT !.collision_map = map]

\* reset_level without engine.collision_map = NULL
reset_level_keeps_collision(st) ==
    [st EXCEPT !.entities = <<>>, !.background_maps = <<>>]

\* entities_reset(); engine.background_maps_len = 0; engine.collision_map = NULL;
reset_level(st) ==
    [st EXCEPT !.entities = <<>>, !.background_maps = <<>>,
               !.collision_map = NoMap]

\* the loop over tilesets[] of engine_load_level_tiled: one descriptor is
\* written per entry, at index i, with no test of i against MAX_TILESETS
RECURSIVE load_tilesets(_, _, _, _)
load_tilesets(tilesets, project_dir, i, st) ==
    IF i > Len(tilesets) \/ st.die # "" THEN st
    ELSE LET tileset == tilesets[i]
             tsj_path == project_dir \o <<SEP>> \o tileset.source
             tile_count == U16(tileset.json.tilecount)
         IN IF Len(tsj_path) >= MAX_PATHLEN
            THEN Fatal(st, "path is too long or short!")
            ELSE IF tile_count = 0 THEN Fatal(st, "tilecount is 0")
            ELSE load_tilesets(tilesets, project_dir, i + 1,
                     [st EXCEPT !.info = Append(@,
                         Tileset(U16(tileset.firstgid), tile_count, tsj_path,
                                 tileset.json.image))])

\* the loop over layers[] of engine_load_level_tiled
RECURSIVE load_layers(_, _, _, _, _, _)
load_layers(layers, tinfo, running, ub, i, st) ==
    IF i > Len(layers) \/ st.die # "" THEN st
    ELSE LET layer == layers[i] IN
         IF ~Has(layer, "name") \/ ~Has(layer, "type")
         THEN Fatal(st, "layer has no name or type")
         ELSE IF layer.type = "tilelayer"
         THEN LET r == map_from_tiled_layer_json(layer, tinfo, running, ub) IN
              IF r.die # "" THEN Fatal(st, r.die)
              ELSE IF r.null THEN load_layers(layers, tinfo, running, ub, i + 1, st)
              ELSE IF layer.name = "collision"
              THEN load_layers(layers, tinfo, running, ub, i + 1,
                               engine_set_collision_map(st, r.map))
              ELSE load_layers(layers, tinfo, running, ub, i + 1,
                               engine_add_background_map(st, r.map))
         ELSE IF layer.type = "objectgroup"
         THEN load_layers(layers, tinfo, running, ub, i + 1,
                          entities_from_tiled_layer_json(layer, st))
         ELSE load_layers(layers, tinfo, running, ub, i + 1, st)

NullJson == [null |-> TRUE]

\* void engine_load_level_tiled(char *json_path, char *project_dir)
\* map_json is what platform_load_asset_json(json_path) returns. ub is what
\* the build does once info.tilesets[MAX_TILESETS] has been written past the
\* end of the array (stop on the damaged stack, or go on with the descriptors
\* where they were written) and once a layer's scan has stored past its grid.
engine_load_level_tiled(map_json, project_dir, st, running, ub) ==
    IF Has(map_json, "null") THEN Fatal(st, "Could not load level json")
    ELSE
    LET st0 == reset_level(st) IN
    IF U16(map_json.tileheight) # U16(map_json.tilewidth)
    THEN Fatal(st0, "tilewidth and tileheight must be the same(square tiles)")
    ELSE
    LET st1 == IF Has(map_json, "tilesets")
               THEN load_tilesets(map_json.tilesets, project_dir, 1, st0)
               ELSE st0
    IN
    IF st1.die # "" THEN st1
    ELSE IF Len(st1.info) > MAX_TILESETS /\ ub = "crash"
    THEN Fatal(st1, "stack smashed: write past info.tilesets")
    ELSE IF Has(map_json, "layers")
    THEN load_layers(map_json.layers,
                     [tile_size |-> U16(map_json.tilewidth), tilesets |-> st1.info],
                     running, ub, 1, st1)
    ELSE st1

\* JSON values whose type tag the native loader tests
JSON_OBJECT == "JSON_OBJECT"
JSON_STRING == "JSON_STRING"
JSON_NUMBER == "JSON_NUMBER"

\* map_t *map_from_json(json_t *def) of map.c: the native map builder, which
\* like the tile layer loader refuses to build a map during gameplay
map_from_json(def, running) ==
    IF running
    THEN [die |-> "Cannot create map during gameplay", map |-> NoMap]
    ELSE [die |-> "",
          map |-> [null |-> FALSE, name |-> def.name, data |-> def.data]]

\* the loop over maps[] of engine_load_level
RECURSIVE load_maps(_, _, _, _)
load_maps(maps, running, i, st) ==
    IF i > Len(maps) \/ st.die # "" THEN st
    ELSE LET r == map_from_json(maps[i], running) IN
         IF r.die # "" THEN Fatal(st, r.die)
         ELSE IF maps[i].name = "collision"
         THEN load_maps(maps, running, i + 1, engine_set_collision_map(st, r.map))
         ELSE load_maps(maps, running, i + 1, engine_add_background_map(st, r.map))

LiveNames(st) == {st.entities[k].name : k \in DOMAIN st.entities} \ {""}

\* entity_settings(entity, settings): the settings-application collaborator,
\* recorded with the entities that are live when it runs
entity_settings(st, ent, settings) ==
    [st EXCEPT !.calls = Append(@,
        [op |-> "entity_settings", ent |-> ent, settings |-> settings,
         spawned |-> Len(st.entities), names |-> LiveNames(st)])]

\* remember_settings that applies the settings at once, inside the spawn loop
apply_settings_at_once(pst, ent, settings) ==
    [pst EXCEPT !.st = entity_settings(@, ent, settings)]

\* entity_settings[entity_settings_len++] = {ent, settings}
remember_settings(pst, ent, settings) ==
    [pst EXCEPT !.pending = Append(@, [entity |-> ent, settings |-> settings])]

\* the first loop over entities[] of engine_load_level; pst is the level
\* state st with the local entity_settings[] array (pending)
RECURSIVE spawn_entities(_, _, _)
spawn_entities(defs, i, pst) ==
    IF i > Len(defs) \/ pst.st.die # "" THEN pst
    ELSE LET def == defs[i] IN
         IF ~Has(def, "type")
         THEN [pst EXCEPT !.st = Fatal(@, "Entity has no type")]
         ELSE IF entity_type_by_name(def.type) = ""
         THEN [pst EXCEPT !.st = Fatal(@, "Unknown entity type")]
         ELSE LET st1 == entity_spawn(pst.st, entity_type_by_name(def.type),
                                      <<def.x, def.y>>)
                  ent == Len(st1.entities)
              IN IF Has(def, "settings") /\ def.settings.type = JSON_OBJECT
                 THEN LET obj == def.settings.object
                          st2 == IF Has(obj, "name") /\ obj.name.type = JSON_STRING
                                 THEN [st1 EXCEPT
                                          !.entities[ent].name = obj.name.string]
                                 ELSE st1
                      IN spawn_entities(defs, i + 1,
                             remember_settings([pst EXCEPT !.st = st2],
                                               ent, def.settings))
                 ELSE spawn_entities(defs, i + 1, [pst EXCEPT !.st = st1])

\* for (i = 0; i < entity_settings_len; i++) entity_settings(...)
RECURSIVE apply_settings(_, _, _)
apply_settings(pending, i, st) ==
    IF i > Len(pending) THEN st
    ELSE apply_settings(pending, i + 1,
             entity_settings(st, pending[i].entity, pending[i].settings))

\* void engine_load_level(char *json_path)
engine_load_level(json, st, running) ==
    IF Has(json, "null") THEN Fatal(st, "Could not load level json")
    ELSE
    LET st0 == reset_level(st)
        st1 == IF Has(json, "maps") THEN load_maps(json.maps, running, 1, st0)
               ELSE st0
    IN
    IF st1.die # "" THEN st1
    ELSE IF ~Has(json, "entities")
    THEN Fatal(st1, "segfault: entities->len of a NULL entities")
    ELSE LET pst == spawn_entities(json.entities, 1, [st |-> st1, pending |-> <<>>])
         IN IF pst.st.die # "" THEN pst.st
            ELSE apply_settings(pst.pending, 1, pst.st)

\* --------------------------------------------------- inputs of SpecPath

Components == {<<"a">>, <<"b">>, <<"c">>, DotDot}

ComponentSeqs == UNION {[1..n -> Components] : n \in 1..MaxComponents}

RECURSIVE JoinWith(_, _)
JoinWith(cs, sep) ==
    IF Len(cs) = 0 THEN <<>>
    ELSE IF Len(cs) = 1 THEN cs[1]
    ELSE cs[1] \o sep \o JoinWith(Tail(cs), sep)

\* relative and absolute paths, with and without a trailing separator
Paths ==
    {lead \o JoinWith(cs, <<SEP>>) \o trail :
        cs \in ComponentSeqs, lead \in {<<>>, <<SEP>>}, trail \in {<<>>, <<SEP>>}}

InitEngine ==
    /\ is_running = FALSE
    /\ scene = 0
    /\ scene_next = 0
    /\ pc = "idle"
    /\ background_maps = <<>>
    /\ collision_map = [null |-> TRUE]
    /\ entities = <<>>
    /\ died = ""
    /\ calls = <<>>
    /\ info = <<>>
    /\ last_load = [op |-> "engine_init"]

InitPath ==
    /\ InitEngine
    /\ arg \in Paths
    /\ ret = NotCalled

Call_norm_path ==
    /\ ret = NotCalled
    /\ ret' = norm_path(arg)
    /\ UNCHANGED <<engine_vars, arg>>

NextPath == Call_norm_path

SpecPath == InitPath /\ [][NextPath]_vars

\* --------------------------------------------------- inputs of SpecTile

ProjectDir == <<"p">>
TsjPath == ProjectDir \o <<SEP>> \o <<"t">>
ImagePath == <<"i">> \o PNG

FirstGids == {1, 5}

Descriptors ==
    {Tileset(g, c, TsjPath, ImagePath) : g \in FirstGids, c \in 1..MaxTileCount}

Registries == UNION {[1..n -> Descriptors] : n \in 0..MaxRegistry}

TileData == UNION {[1..n -> 0..MaxTile] : n \in 0..MaxData}

TileLayer(name, data) ==
    [name |-> name, type |-> "tilelayer", width |-> Len(data), height |-> 1,
     data |-> data]

LongName == "0123456789abcdef"

\* layers that take the other paths of the loader, each over fixed data
OtherLayers ==
    LET base == TileLayer("bg", <<1, 2>>) IN
    {[base EXCEPT !.type = "objectgroup"],
     TileLayer(LongName, <<1, 2>>),
     [type |-> "tilelayer", width |-> 2, height |-> 1, data |-> <<1, 2>>],
     [name |-> "bg", type |-> "tilelayer", width |-> 2, height |-> 1],
     TileLayer("bg", <<1, 65536>>)}
    \cup {base @@ [parallaxx |-> px, parallaxy |-> py] : px \in 0..2, py \in 0..2}
    \cup {base @@ [properties |-> <<[name |-> n, type |-> t, value |-> TRUE]>>] :
              n \in {"foreground", "repeat", "other"}, t \in {"bool", "int"}}

\* a layer of the ids d over every registry
TileArgs(d) ==
    {[def |-> TileLayer("bg", d), info |-> [tile_size |-> 8, tilesets |-> r],
      running |-> FALSE] : r \in Registries}

OtherTileArgs ==
    {[def |-> l, info |-> [tile_size |-> 8, tilesets |-> r], running |-> run] :
        l \in OtherLayers \cup {TileLayer("collision", <<1, 2>>)},
        r \in {<<Tileset(1, 2, TsjPath, ImagePath)>>},
        run \in BOOLEAN}

InitTile ==
    /\ InitEngine
    /\ \E d \in TileData : arg \in TileArgs(d) \cup OtherTileArgs
    /\ ret = NotCalled

Call_map_from_tiled_layer_json ==
    /\ ret = NotCalled
    /\ \E ub \in UBOutcomes :
          ret' = map_from_tiled_layer_json(arg.def, arg.info, arg.running, ub)
    /\ UNCHANGED <<engine_vars, arg>>

NextTile == Call_map_from_tiled_layer_json

SpecTile == InitTile /\ [][NextTile]_vars

\* --------------------------------------------------- inputs of SpecGrid

\* a layer of the ids d declared width columns wide and one row high: data[]
\* is shorter than, as long as or longer than width * height; the registry
\* has one tileset that holds every id
GridArgs(d) ==
    {[def |-> [TileLayer("bg", d) EXCEPT !.width = width],
      info |-> [tile_size |-> 8,
                tilesets |-> <<Tileset(1, MaxTile, TsjPath, ImagePath)>>],
      running |-> FALSE] : width \in 0..MaxData}

InitGrid ==
    /\ InitEngine
    /\ \E d \in TileData : arg \in GridArgs(d)
    /\ ret = NotCalled

SpecGrid == InitGrid /\ [][NextTile]_vars

\* ------------------------------------------------------ scenes and frames

\* the level state the engine holds when a load is called; the record of
\* collaborator calls and of registry writes starts anew with every load
Level == LevelState(died, background_maps, collision_map, entities, <<>>, <<>>)

SetLevel(st) ==
    /\ died' = st.die
    /\ background_maps' = st.background_maps
    /\ collision_map' = st.collision_map
    /\ entities' = st.entities
    /\ calls' = st.calls
    /\ info' = st.info

\* the engine holds maps or entities (of an earlier load)
LevelInUse ==
    background_maps # <<>> \/ collision_map # NoMap \/ entities # <<>>

\* engine_load_level_tiled called by the game, from a scene callback or
\* outside engine_update
LoadTiled(in, ub) ==
    /\ died = ""
    /\ SetLevel(engine_load_level_tiled(in.json, in.dir, Level, is_running, ub))
    /\ last_load' = [op |-> "engine_load_level_tiled", json |-> in.json,
                     dir |-> in.dir, running |-> is_running,
                     dirty |-> LevelInUse]
    /\ UNCHANGED <<is_running, scene, scene_next, pc>>

\* engine_load_level called by the game
LoadNative(json) ==
    /\ died = ""
    /\ SetLevel(engine_load_level(json, Level, is_running))
    /\ last_load' = [op |-> "engine_load_level", json |-> json,
                     running |-> is_running, dirty |-> LevelInUse]
    /\ UNCHANGED <<is_running, scene, scene_next, pc>>

\* void engine_set_scene(scene_t *scene)
engine_set_scene(s) ==
    /\ died = ""
    /\ scene_next' = s
    /\ UNCHANGED <<is_running, scene, pc, background_maps, collision_map,
                   entities, died, calls, info, last_load, arg, ret>>

\* the resets of a scene switch and scene = scene_next, up to the call of
\* scene->init()
switch_scene ==
    /\ entities' = <<>>
    /\ background_maps' = <<>>
    /\ collision_map' = NoMap
    /\ scene' = scene_next
    /\ pc' = "init"
    /\ last_load' = [op |-> "scene switch"]

\* engine_update, from its entry to the first scene callback it calls
engine_update ==
    /\ died = ""
    /\ pc = "idle"
    /\ \/ /\ scene_next # 0
          /\ scene # 0
          /\ is_running' = FALSE
          /\ pc' = "cleanup"
          /\ UNCHANGED <<scene, background_maps, collision_map, entities, died,
                         last_load>>
       \/ /\ scene_next # 0
          /\ scene = 0
          /\ is_running' = FALSE
          /\ switch_scene
          /\ UNCHANGED died
       \/ /\ scene_next = 0
          /\ scene # 0
          /\ is_running' = TRUE
          /\ pc' = "update"
          /\ UNCHANGED <<scene, background_maps, collision_map, entities, died,
                         last_load>>
       \/ /\ scene_next = 0
          /\ scene = 0
          /\ is_running' = TRUE
          /\ died' = "No scene set"
          /\ UNCHANGED <<scene, pc, background_maps, collision_map, entities,
                         last_load>>
    /\ UNCHANGED <<scene_next, calls, info, arg, ret>>

\* scene->cleanup() returns: the resets, then scene->init() is called
scene_cleanup_returns ==
    /\ died = ""
    /\ pc = "cleanup"
    /\ switch_scene
    /\ UNCHANGED <<is_running, scene_next, died, calls, info, arg, ret>>

\* a variant that leaves the running flag as it is after init
init_returns_flag_unset ==
    /\ died = ""
    /\ pc = "init"
    /\ scene_next' = 0
    /\ pc' = "update"
    /\ UNCHANGED <<is_running, scene, background_maps, collision_map, entities,
                   died, calls, info, last_load, arg, ret>>

\* scene->init() returns: scene_next = NULL; is_running = true; then the
\* scene's update callback is called
scene_init_returns ==
    /\ died = ""
    /\ pc = "init"
    /\ scene_next' = 0
    /\ is_running' = TRUE
    /\ pc' = "update"
    /\ UNCHANGED <<scene, background_maps, collision_map, entities, died,
                   calls, info, last_load, arg, ret>>

\* the update callback returns: the draw callback is called
scene_update_returns ==
    /\ died = ""
    /\ pc = "update"
    /\ pc' = "draw"
    /\ UNCHANGED <<is_running, scene, scene_next, background_maps,
                   collision_map, entities, died, calls, info, last_load, arg, ret>>

\* the draw callback returns: engine_update returns
scene_draw_returns ==
    /\ died = ""
    /\ pc = "draw"
    /\ pc' = "idle"
    /\ UNCHANGED <<is_running, scene, scene_next, background_maps,
                   collision_map, entities, died, calls, info, last_load, arg, ret>>

\* ------------------------------------------------------- inputs of Spec

TilesetRef(source, firstgid, tilecount) ==
    [source |-> source, firstgid |-> firstgid,
     json |-> [tilecount |-> tilecount, tilewidth |-> 8, tileheight |-> 8,
               image |-> ImagePath]]

Project(tilesets, layers) ==
    [tilewidth |-> 8, tileheight |-> 8, tilesets |-> tilesets, layers |-> layers]

Object(type, id, x, y, height) ==
    [type |-> type, id |-> id, x |-> x, y |-> y, height |-> height]

ObjectLayer(objects) ==
    [name |-> "objects", type |-> "objectgroup", objects |-> objects]

PlayerLayer == ObjectLayer(<<Object("Player", 7, 10, 50, 20)>>)

LayerPool ==
    {TileLayer("collision", <<1, 2>>), TileLayer("bg", <<1, 2>>), PlayerLayer}

\* layers beside the pool: a collision layer of equal ids, all-zero layers
\* before and after other layers, one background layer too many, an image
\* layer
OtherLayerSeqs ==
    {<<TileLayer("collision", <<2, 2>>)>>,
     <<TileLayer("far", <<0, 0>>), TileLayer("collision", <<1, 2>>)>>,
     <<TileLayer("far", <<0, 0>>), TileLayer("bg", <<1, 2>>),
       TileLayer("collision", <<1, 2>>), PlayerLayer>>,
     <<TileLayer("bg", <<1, 2>>), TileLayer("far", <<0, 0>>)>>,
     [k \in 1..(ENGINE_MAX_BACKGROUND_MAPS + 1) |-> TileLayer("bg", <<1, 2>>)],
     <<[name |-> "image", type |-> "imagelayer"], TileLayer("bg", <<1, 2>>)>>}

LayerSeqs == UNION {[1..n -> LayerPool] : n \in 0..MaxLayers}

\* n tilesets of two tiles each, with consecutive id ranges
ManyTilesets(n) == [i \in 1..n |-> TilesetRef(<<"t">>, 1 + 2 * (i - 1), 2)]

ProjectRegistries ==
    {<<>>, <<TilesetRef(<<"t">>, 1, 2)>>, <<TilesetRef(<<"t">>, 5, 2)>>,
     <<TilesetRef(<<"t">>, 1, 0)>>,
     <<TilesetRef(DotDot \o <<SEP, "t">>, 1, 2)>>,
     ManyTilesets(MAX_TILESETS), ManyTilesets(MAX_TILESETS + 1)}

TiledInputs ==
    {[json |-> Project(<<TilesetRef(<<"t">>, 1, 10)>>, ls), dir |-> ProjectDir] :
        ls \in LayerSeqs \cup OtherLayerSeqs}
    \cup {[json |-> Project(r, <<TileLayer("bg", <<1, 2>>), PlayerLayer>>),
           dir |-> d] : r \in ProjectRegistries, d \in {ProjectDir, DotDot}}
    \cup {[json |-> j, dir |-> ProjectDir] :
            j \in {NullJson,
                   [Project(<<>>, <<>>) EXCEPT !.tileheight = 16],
                   Project(<<>>, <<[type |-> "tilelayer"]>>),
                   Project(<<>>, <<[name |-> "objects", type |-> "objectgroup"]>>),
                   Project(<<>>, <<ObjectLayer(<<Object("Nope", 1, 0, 0, 0)>>)>>),
                   Project(<<>>, <<ObjectLayer(<<[x |-> 0, y |-> 0, height |-> 0,
                                                 id |-> 1]>>)>>),
                   Project(<<>>, <<ObjectLayer(<<[type |-> "Crate", x |-> 0,
                                                 y |-> 0, height |-> 0]>>)>>),
                   Project(<<>>, <<ObjectLayer(<<Object("Crate", 65535, 0, 0, 0)>>)>>)}}

JObj(object) == [type |-> JSON_OBJECT, object |-> object]
JStr(string) == [type |-> JSON_STRING, string |-> string]
JNum(number) == [type |-> JSON_NUMBER, number |-> number]

Entity(type, x, y) == [type |-> type, x |-> x, y |-> y]

\* A is configured with a reference to the entity named B
EntityA ==
    Entity("Player", 1, 2) @@
        [settings |-> JObj([name |-> JStr("A"), target |-> JStr("B")])]
EntityB == Entity("Crate", 3, 4) @@ [settings |-> JObj([name |-> JStr("B")])]

EntityPool == {EntityA, EntityB, Entity("Crate", 5, 6)}

\* entities beside the pool: settings that are no object, an unknown type, a
\* name that is no string, a missing type
OtherEntitySeqs ==
    {<<EntityA, Entity("Crate", 7, 8) @@ [settings |-> JStr("s")], EntityB>>,
     <<EntityB, Entity("Nope", 0, 0)>>,
     <<Entity("Crate", 9, 9) @@ [settings |-> JObj([name |-> JNum(5)])]>>,
     <<[x |-> 0, y |-> 0]>>}

EntitySeqs == UNION {[1..n -> EntityPool] : n \in 0..MaxEntities}

MapPool == {[name |-> "collision", data |-> <<1>>], [name |-> "bg", data |-> <<2>>]}

MapSeqs == UNION {[1..n -> MapPool] : n \in 0..MaxLayers}

NativeInputs ==
    {[maps |-> ms, entities |-> <<EntityA, EntityB>>] : ms \in MapSeqs}
    \cup {[maps |-> <<[name |-> "bg", data |-> <<2>>]>>, entities |-> es] :
            es \in EntitySeqs \cup OtherEntitySeqs}
    \cup {NullJson, [maps |-> <<>>], [entities |-> <<EntityB, EntityA>>]}

Scenes == 1..NScenes

Init ==
    /\ InitEngine
    /\ arg = <<>>
    /\ ret = NotCalled

Call_engine_load_level_tiled ==
    /\ \E in \in TiledInputs, ub \in UBOutcomes : LoadTiled(in, ub)
    /\ UNCHANGED <<arg, ret>>

Call_engine_load_level ==
    /\ \E json \in NativeInputs : LoadNative(json)
    /\ UNCHANGED <<arg, ret>>

Call_engine_set_scene == \E s \in Scenes : engine_set_scene(s)

Next ==
    \/ Call_engine_load_level_tiled
    \/ Call_engine_load_level
    \/ Call_engine_set_scene
    \/ engine_update
    \/ scene_cleanup_returns
    \/ scene_init_returns
    \/ scene_update_returns
    \/ scene_draw_returns

Spec == Init /\ [][Next]_vars

\* ----------------------------------------------------- inputs of SpecE2E

E2EData == UNION {[1..n -> 1..10] : n \in 1..MaxE2EData}

E2EIds == {0, 7, 65534, 65535}

E2EObjects ==
    {Object(t, i, p[1], p[2], p[3]) :
        t \in EntityTypes, i \in E2EIds,
        p \in {<<10, 50, 20>>, <<0, 0, 0>>, <<3, 5, 8>>}}

\* one tileset (first_gid 1, tile_count 10), one tile layer named
\* "collision" with ids in 1..10, one object layer with one object
E2EInputs(d) ==
    {[json |-> Project(<<TilesetRef(<<"t">>, 1, 10)>>, ls), dir |-> ProjectDir] :
        ls \in UNION {{<<TileLayer("collision", d), ObjectLayer(<<o>>)>>,
                       <<ObjectLayer(<<o>>), TileLayer("collision", d)>>} :
                          o \in E2EObjects}}

InitE2E ==
    /\ InitEngine
    /\ \E d \in E2EData : arg \in E2EInputs(d)
    /\ ret = NotCalled

Load_arg ==
    /\ ret = NotCalled
    /\ LoadTiled(arg, "continue")
    /\ ret' = [called |-> TRUE]
    /\ UNCHANGED arg

NextE2E == Load_arg

SpecE2E == InitE2E /\ [][NextE2E]_vars

\* ----------------------------------------------------- inputs of SpecObj

\* ids at and around both ends of the unsigned 16-bit range
ObjIds == {-1, 0, 1, 65534, 65535, 65536}

\* objects of a known type with each id, and one without id
ObjPool ==
    {Object(t, i, 4, 9, 3) : t \in EntityTypes, i \in ObjIds}
    \cup {[type |-> "Crate", x |-> 4, y |-> 9, height |-> 3]}

ObjSeqs == UNION {[1..n -> ObjPool] : n \in 0..MaxObjects}

InitObj ==
    /\ InitEngine
    /\ arg \in {ObjectLayer(os) : os \in ObjSeqs}
    /\ ret = NotCalled

Call_entities_from_tiled_layer_json ==
    /\ ret = NotCalled
    /\ SetLevel(entities_from_tiled_layer_json(arg, Level))
    /\ ret' = [called |-> TRUE]
    /\ UNCHANGED <<is_running, scene, scene_next, pc, last_load, arg>>

NextObj == Call_entities_from_tiled_layer_json

SpecObj == InitObj /\ [][NextObj]_vars

\* What the specification asks of normalize: every ".." cancels the nearest
\* preceding component that is still present; with none left it is fatal.
RECURSIVE CancelDotDot(_, _)
CancelDotDot(parts, kept) ==
    IF parts = <<>> THEN [die |-> FALSE, kept |-> kept]
    ELSE IF Head(parts) = DotDot
         THEN IF kept = <<>>
              THEN [die |-> TRUE, kept |-> kept]
              ELSE CancelDotDot(Tail(parts), SubSeq(kept, 1, Len(kept) - 1))
         ELSE CancelDotDot(Tail(parts), Append(kept, Head(parts)))

Expected == CancelDotDot(strtok(arg, <<>>, <<>>), <<>>)

\* C6: norm_path removes every ".." together with the nearest preceding
\* component still present (the first component of the path included) and
\* joins the surviving components with single separators in their order:
\* norm_path("a/b/../c") = "a/c" and norm_path("a/../b") = "b".
C6_DotDotCancelsPreceding ==
    (ret.called /\ ~Expected.die) =>
        /\ ret.die = ""
        /\ ret.path = JoinWith(Expected.kept, <<SEP>>)

\* C7: norm_path is fatal for every path in which some ".." has no preceding
\* component left to cancel, a leading ".." and also a ".." whose preceding
\* components were all consumed by earlier ".." components ("a/../../b").
C7_FatalWhenNothingToCancel ==
    (ret.called /\ Expected.die) => ret.die # ""

\* ------------------------------------------------ claims on the tile loader

Nonzero(data) == {i \in DOMAIN data : data[i] # 0}
\* the largest and the smallest nonzero id of data (0 / 65535 when there is none)
TrueMax(data) ==
    IF Nonzero(data) = {} THEN 0
    ELSE CHOOSE m \in {data[i] : i \in Nonzero(data)} :
             \A i \in Nonzero(data) : data[i] <= m
TrueMin(data) ==
    IF Nonzero(data) = {} THEN 65535
    ELSE CHOOSE m \in {data[i] : i \in Nonzero(data)} :
             \A i \in Nonzero(data) : data[i] >= m

\* the call returned a map
Returned == ret.called /\ ret.die = "" /\ ~ret.null

\* C4: after map_from_tiled_layer_json returns a map for which a tileset was
\* resolved, every non-zero entry of the map's tile grid lies in
\* [1, tile_count] of the matched tileset.
C4_GridWithinTileCount ==
    (Returned /\ ret.matched # 0) =>
        \A i \in DOMAIN ret.map.data :
            ret.map.data[i] # 0 =>
                /\ 1 <= ret.map.data[i]
                /\ ret.map.data[i] <= arg.info.tilesets[ret.matched].tile_count

\* some tileset of the registry passes the loader's range test for the layer
SomeTilesetMatches ==
    \E k \in DOMAIN arg.info.tilesets :
        /\ TrueMin(arg.def.data) >= arg.info.tilesets[k].first_gid
        /\ TrueMax(arg.def.data) <=
               arg.info.tilesets[k].first_gid + arg.info.tilesets[k].tile_count

\* C9: for every tile layer with at least one nonzero id, built against a
\* registry with a matching tileset, the returned map stores each nonzero raw
\* id r as r - (first_gid - 1) of the matched tileset and leaves every 0 as 0,
\* also when a single value is the only nonzero id of the layer.
C9_IdsRewritten ==
    (Returned /\ Has(arg.def, "data") /\ Nonzero(arg.def.data) # {}
        /\ SomeTilesetMatches) =>
        /\ ret.matched # 0
        /\ \A i \in DOMAIN arg.def.data :
               ret.map.data[i] =
                   IF arg.def.data[i] = 0 THEN 0
                   ELSE arg.def.data[i]
                        - (arg.info.tilesets[ret.matched].first_gid - 1)

\* the loader took the empty-layer path: a map with no tileset resolved
EmptyLayerPath == Returned /\ ret.matched = 0

\* C10: after the scan max_tile is the largest nonzero id of data and min_tile
\* the smallest, for every data sequence, so the empty-layer path is taken
\* exactly when every id of the layer is 0.
C10_ScanTracksExtremes ==
    (ret.called /\ ret.scanned) =>
        /\ ret.max_tile = TrueMax(arg.def.data)
        /\ ret.min_tile = TrueMin(arg.def.data)
        /\ (ret.max_tile = 0) <=> (Nonzero(arg.def.data) = {})

\* the lowest-index entry of the registry whose range test
\* first_gid <= lo and hi <= first_gid + tile_count passes, 0 when none does
LowestMatch(tilesets, lo, hi) ==
    LET ok == {k \in DOMAIN tilesets :
                  /\ tilesets[k].first_gid <= lo
                  /\ hi <= tilesets[k].first_gid + tilesets[k].tile_count}
    IN IF ok = {} THEN 0 ELSE CHOOSE k \in ok : \A j \in ok : k <= j

FirstMatch ==
    LowestMatch(arg.info.tilesets, TrueMin(arg.def.data), TrueMax(arg.def.data))

\* C11: tileset resolution is first-match-wins in declaration order: for a
\* layer with a nonzero id the matched tileset is the lowest-index registry
\* entry with first_gid <= min and max <= first_gid + tile_count, min and max
\* being the smallest and largest nonzero id of the layer, also when ranges
\* overlap; when no entry passes the test the call is fatal.
C11_FirstMatchWins ==
    (ret.called /\ ret.scanned /\ Nonzero(arg.def.data) # {}) =>
        IF FirstMatch = 0
        THEN ret.die = "No matching tileset found for given layer"
        ELSE ret.matched = FirstMatch

\* the same with the min_tile and max_tile the scan computed, for the layers
\* the scan does not take for empty
FirstMatchOfScanned ==
    (ret.called /\ ret.scanned /\ ret.max_tile # 0) =>
        LET k == LowestMatch(arg.info.tilesets, ret.min_tile, ret.max_tile) IN
        IF k = 0
        THEN ret.die = "No matching tileset found for given layer"
        ELSE ret.matched = k

\* C16: the tile grid is never written out of bounds: for every layer
\* definition map_from_tiled_layer_json accepts, whatever the length of its
\* data array, every store map->data[index++] is at an index below
\* width * height, so the number of stores is at most width * height.
C16_GridNeverWrittenOutOfBounds ==
    Returned => ret.stored <= arg.def.width * arg.def.height

\* ------------------------------------------------- claims on the level loads

EmptyLevel == LevelState("", <<>>, NoMap, <<>>, <<>>, <<>>)

LastLoadTiled == last_load.op = "engine_load_level_tiled"
LastLoadNative == last_load.op = "engine_load_level"

\* C1: a level load attempted while engine_is_running() is true terminates
\* fatally instead of completing, whatever the project holds (a project with no
\* tile layer, only object layers, a native-format file).
C1_LoadWhileRunningIsFatal ==
    ((LastLoadTiled \/ LastLoadNative) /\ last_load.running) => died # ""

\* the layers (or native maps) of the last load's document named "collision"
CollisionLayers ==
    IF LastLoadTiled
    THEN IF Has(last_load.json, "layers")
         THEN {i \in DOMAIN last_load.json.layers :
                  /\ last_load.json.layers[i].type = "tilelayer"
                  /\ last_load.json.layers[i].name = "collision"}
         ELSE {}
    ELSE IF Has(last_load.json, "maps")
         THEN {i \in DOMAIN last_load.json.maps :
                  last_load.json.maps[i].name = "collision"}
         ELSE {}

\* what the last load makes of an empty engine
FromEmpty ==
    IF LastLoadTiled
    THEN {engine_load_level_tiled(last_load.json, last_load.dir, EmptyLevel,
                                  last_load.running, ub) : ub \in UBOutcomes}
    ELSE {engine_load_level(last_load.json, EmptyLevel, last_load.running)}

\* C2: every load starts from an empty level: after a completed load the
\* background map list, the collision slot and the live entities are what that
\* load alone produces, whatever the loads before it left; with no layer named
\* "collision" in the last document the collision slot is null.
C2_LoadStartsFromEmptyLevel ==
    ((LastLoadTiled \/ LastLoadNative) /\ died = "") =>
        /\ \E r \in FromEmpty :
              /\ r.die = ""
              /\ background_maps = r.background_maps
              /\ collision_map = r.collision_map
              /\ entities = r.entities
        /\ CollisionLayers = {} => collision_map = NoMap

\* a completed load of a document without collision layer, begun while the
\* engine held the maps and entities of an earlier load
C2_Witness ==
    /\ LastLoadTiled \/ LastLoadNative
    /\ died = ""
    /\ last_load.dirty
    /\ CollisionLayers = {}
    /\ collision_map = NoMap
    /\ Len(entities) = 1

SettingsCalls == {i \in DOMAIN calls : calls[i].op = "entity_settings"}
SpawnCalls == {i \in DOMAIN calls : calls[i].op = "entity_spawn"}

\* the names the entities of the last native document give themselves
DeclaredNames ==
    {d.settings.object.name.string :
        d \in {last_load.json.entities[k] : k \in
                {k \in DOMAIN last_load.json.entities :
                    /\ Has(last_load.json.entities[k], "settings")
                    /\ last_load.json.entities[k].settings.type = JSON_OBJECT
                    /\ Has(last_load.json.entities[k].settings.object, "name")
                    /\ last_load.json.entities[k].settings.object.name.type
                           = JSON_STRING}}}

\* C3: in engine_load_level no call of entity_settings happens before the last
\* entity of the same load has been spawned, for every order of entities[]: a
\* settings object that names another entity of the load finds it spawned,
\* whether that entity is listed before or after.
C3_SettingsAfterAllSpawned ==
    LastLoadNative =>
        \A i \in SettingsCalls :
            /\ \A j \in SpawnCalls : j < i
            /\ calls[i].spawned = Len(last_load.json.entities)
            /\ \A n \in DeclaredNames :
                   (/\ Has(calls[i].settings.object, "target")
                    /\ calls[i].settings.object.target.string = n)
                       => n \in calls[i].names

\* the settings of A, listed first, were applied and name B, listed second
C3_Witness ==
    /\ LastLoadNative
    /\ died = ""
    /\ last_load.json.entities = <<EntityA, EntityB>>
    /\ \E i \in SettingsCalls :
          /\ calls[i].ent = 1
          /\ calls[i].settings.object.target.string = "B"
          /\ "B" \in calls[i].names

\* C5: the tileset registry never holds more than MAX_TILESETS descriptors: a
\* project that references more makes engine_load_level_tiled terminate
\* fatally, and no descriptor is written at an index >= MAX_TILESETS.
C5_RegistryWithinBound ==
    LastLoadTiled =>
        /\ Len(info) <= MAX_TILESETS
        /\ (/\ Has(last_load.json, "tilesets")
            /\ Len(last_load.json.tilesets) > MAX_TILESETS) => died # ""

\* a tile layer that is not the collision layer
IsBackgroundLayer(layer) == layer.type = "tilelayer" /\ layer.name # "collision"

\* the tile layers of the last project that are not named "collision", in
\* document order
BackgroundLayers ==
    IF Has(last_load.json, "layers")
    THEN SelectSeq(last_load.json.layers, IsBackgroundLayer)
    ELSE <<>>

\* C13: after a completed engine_load_level_tiled the background list holds
\* exactly the tile layers whose name is not "collision", in document order,
\* all-zero layers included; the collision slot holds a tile layer named
\* "collision" if and only if the project has one; no map named "collision"
\* is in the background list; object layers and other layers add no map.
C13_LayerClassification ==
    (LastLoadTiled /\ died = "") =>
        /\ Len(background_maps) = Len(BackgroundLayers)
        /\ \A k \in DOMAIN BackgroundLayers :
               /\ background_maps[k].name = BackgroundLayers[k].name
               /\ background_maps[k].size =
                      <<BackgroundLayers[k].width, BackgroundLayers[k].height>>
               /\ Len(background_maps[k].data) = Len(BackgroundLayers[k].data)
        /\ (collision_map # NoMap) <=> (CollisionLayers # {})
        /\ collision_map # NoMap => collision_map.name = "collision"
        /\ \A k \in DOMAIN background_maps :
               background_maps[k].name # "collision"

\* a completed load of an all-zero layer, a background layer, a collision
\* layer and an object layer, in this order
C13_Witness ==
    /\ LastLoadTiled
    /\ died = ""
    /\ Len(last_load.json.layers) = 4
    /\ Len(background_maps) = 2
    /\ background_maps[1].name = "far"
    /\ background_maps[2].name = "bg"
    /\ collision_map # NoMap
    /\ Len(entities) = 1

\* the single object of the document loaded in SpecE2E
E2EObject ==
    LET l == CHOOSE l \in {arg.json.layers[k] : k \in DOMAIN arg.json.layers} :
                 l.type = "objectgroup"
    IN l.objects[1]

E2EOutcome ==
    /\ died = ""
    /\ collision_map # NoMap
    /\ background_maps = <<>>
    /\ entities = <<[type |-> E2EObject.type,
                     pos |-> <<E2EObject.x, E2EObject.y - E2EObject.height>>,
                     name |-> Decimal(E2EObject.id)]>>
    /\ (E2EObject = Object("Player", 7, 10, 50, 20)) =>
           entities = <<[type |-> "Player", pos |-> <<10, 30>>, name |-> "7"]>>

\* C8: for every project with one tileset (first_gid 1, tile_count 10), one
\* tile layer named "collision" with ids in 1..10 in any arrangement and one
\* object layer with a single object of a known type, id i, position (x, y)
\* and height h, engine_load_level_tiled ends with the collision slot set, no
\* background map and exactly one entity, of that type, at (x, y - h), named
\* the decimal string of i.
C8_EndToEndLoad == ret.called => E2EOutcome

\* the same for every id below UINT16_MAX, the ids the loader accepts
E2EAcceptedIds == (ret.called /\ E2EObject.id < UINT16_MAX) => E2EOutcome

\* ---------------------------------------------- claims on the object loader

\* the id of the object is present and fits the unsigned 16-bit range
IdInRange(obj) == Has(obj, "id") /\ obj.id >= 0 /\ obj.id <= 65535

\* every object of the layer was spawned and named after its id
AllNamed ==
    /\ died = ""
    /\ Len(entities) = Len(arg.objects)
    /\ \A k \in DOMAIN arg.objects :
           entities[k].name = Decimal(arg.objects[k].id)

\* C12: entities_from_tiled_layer_json accepts an object exactly when its id
\* is present and in 0..65535, both ends included, and names the entity with
\* the decimal string of the id; an absent id or an id outside the range is
\* fatal.
C12_IdRange ==
    ret.called =>
        IF \A k \in DOMAIN arg.objects : IdInRange(arg.objects[k])
        THEN AllNamed
        ELSE died # ""

\* the same with the range the loader tests, 0..UINT16_MAX - 1
IdBelowMaxAccepted ==
    ret.called =>
        IF \A k \in DOMAIN arg.objects :
               IdInRange(arg.objects[k]) /\ arg.objects[k].id < UINT16_MAX
        THEN AllNamed
        ELSE died # ""

\* ------------------------------------------- claims on scenes and frames

\* C14: a scene requested with engine_set_scene is never lost: a pending
\* request S (scene_next = S) goes away only by a newer request taking its
\* place or by S having become the current scene, also when the request is
\* made inside another scene's init or cleanup callback during a switch.
C14_SceneRequestNeverLost ==
    [][(scene_next # 0 /\ scene_next' # scene_next) =>
          (scene_next' # 0 \/ scene' = scene_next)]_vars

\* every scene switch installs the request that is pending when cleanup is
\* over, a request made from the cleanup callback included
SwitchTakesPendingRequest ==
    [][(pc # "init" /\ pc' = "init") =>
          (scene_next # 0 /\ scene' = scene_next)]_vars

\* the message of the loaders' test of the running flag
DuringGameplay == "Cannot create map during gameplay"

\* C15: the running flag follows the frame protocol: is_running is false
\* before the first engine_update and throughout the cleanup and init
\* callbacks of a scene switch, so a level load issued there is never rejected
\* as "during gameplay"; it is true during every update and draw callback and
\* between frames once an engine_update has completed.
C15_RunningFlagProtocol ==
    /\ (pc \in {"cleanup", "init"}) => (~is_running /\ died # DuringGameplay)
    /\ (pc \in {"update", "draw"}) => is_running
    /\ (pc = "idle" /\ scene = 0 /\ died = "") => ~is_running
    /\ (pc = "idle" /\ scene # 0) => is_running

\* a tiled project with tile layers was loaded to completion from the init
\* callback of a scene switch
C15_Witness ==
    /\ pc = "init"
    /\ scene # 0
    /\ ~is_running
    /\ LastLoadTiled
    /\ died = ""
    /\ background_maps # <<>>
    /\ collision_map # NoMap

====
